---- MODULE Spec2Model ----
(***************************************************************************)
(* Localization4: the gap classification engine of src/src/gap_analyzer.py *)
(* (NovaActLiteAnalyzer) as a state machine.                               *)
(*                                                                         *)
(* Text is a sequence of characters, each character a one-character string *)
(* (a non-ASCII code point is written "U+XXXX").  Scores and confidences   *)
(* are binary64 values written in thousandths, see the section on          *)
(* confidences.                                                            *)
(***************************************************************************)
EXTENDS Integers, Sequences, FiniteSets, TLC

(***************************************************************************)
(* Characters and the str methods the analyzer uses                        *)
(***************************************************************************)
LowerLetters == <<"a", "b", "c", "d", "e", "f", "g", "h", "i", "j", "k", "l", "m",
                  "n", "o", "p", "q", "r", "s", "t", "u", "v", "w", "x", "y", "z",
                  "U+00E8">>

UpperLetters == <<"A", "B", "C", "D", "E", "F", "G", "H", "I", "J", "K", "L", "M",
                  "N", "O", "P", "Q", "R", "S", "T", "U", "V", "W", "X", "Y", "Z",
                  "U+00C8">>

DigitChars == {"0", "1", "2", "3", "4", "5", "6", "7", "8", "9"}

SpaceChars == {" ", "\t", "\n", "\r"}

Range(s) == {s[k] : k \in 1..Len(s)}

\* \w of a str pattern: Unicode letters, digits and the underscore.
WordChars == Range(LowerLetters) \cup Range(UpperLetters) \cup DigitChars \cup {"_"}

IsWordChar(c) == c \in WordChars

\* str.lower(), one character.
LowerChar(c) ==
    IF c \in Range(UpperLetters)
    THEN LowerLetters[CHOOSE k \in 1..Len(UpperLetters) : UpperLetters[k] = c]
    ELSE c

\* str.lower()
lower(text) == [k \in 1..Len(text) |-> LowerChar(text[k])]

\* str.isdigit(): non-empty and every character a digit.
isdigit(text) == Len(text) > 0 /\ \A k \in 1..Len(text) : text[k] \in DigitChars

\* str.strip(): leading and trailing whitespace removed.
strip(text) ==
    LET inked == {k \in 1..Len(text) : text[k] \notin SpaceChars}
        first == CHOOSE k \in inked : \A m \in inked : k <= m
        last  == CHOOSE k \in inked : \A m \in inked : m <= k
    IN  IF inked = {} THEN <<>> ELSE SubSeq(text, first, last)

(***************************************************************************)
(* re.search for the pattern shapes the analyzer uses.  A pattern is a     *)
(* sequence of items: a literal, \s+ , \s* , \w+ , .* or \b .              *)
(***************************************************************************)
Lit(s)  == [t |-> "lit", s |-> s]
SPlus   == [t |-> "s+", s |-> <<>>]
SStar   == [t |-> "s*", s |-> <<>>]
WPlus   == [t |-> "w+", s |-> <<>>]
DotStar == [t |-> ".*", s |-> <<>>]
WordB   == [t |-> "b", s |-> <<>>]

\* Whether text[p] exists and is a word character (for \b).
WordAt(text, p) == p >= 1 /\ p <= Len(text) /\ IsWordChar(text[p])

\* Whether the item's character class holds text[p].
InClass(item, c) ==
    CASE item.t \in {"s+", "s*"} -> c \in SpaceChars
      [] item.t = "w+"           -> IsWordChar(c)
      [] item.t = ".*"           -> c # "\n"
      [] OTHER                   -> FALSE

\* The run lengths n the repetition item may take at position p.
Runs(item, text, p) ==
    {n \in (IF item.t \in {"s+", "w+"} THEN 1 ELSE 0)..(Len(text) - p + 1) :
        \A k \in p..(p + n - 1) : InClass(item, text[k])}

RECURSIVE MatchFrom(_, _, _, _)
\* Whether items k.. of pat match text starting at position p.
MatchFrom(pat, k, text, p) ==
    IF k > Len(pat) THEN TRUE
    ELSE LET item == pat[k] IN
         CASE item.t = "lit" ->
                  /\ p + Len(item.s) - 1 <= Len(text)
                  /\ SubSeq(text, p, p + Len(item.s) - 1) = item.s
                  /\ MatchFrom(pat, k + 1, text, p + Len(item.s))
           [] item.t = "b" ->
                  /\ WordAt(text, p - 1) # WordAt(text, p)
                  /\ MatchFrom(pat, k + 1, text, p)
           [] OTHER ->
                  \E n \in Runs(item, text, p) : MatchFrom(pat, k + 1, text, p + n)

\* re.search(pattern, text) is not None
re_search(pat, text) == \E p \in 1..(Len(text) + 1) : MatchFrom(pat, 1, text, p)

(***************************************************************************)
(* _is_code                                                                *)
(***************************************************************************)
code_patterns ==
    << <<Lit(<<"f", "u", "n", "c", "t", "i", "o", "n">>), SPlus, WPlus, SStar, Lit(<<"(">>)>>,
       <<Lit(<<"v", "a", "r">>), SPlus, WPlus, SStar, Lit(<<"=">>)>>,
       <<Lit(<<"l", "e", "t">>), SPlus, WPlus, SStar, Lit(<<"=">>)>>,
       <<Lit(<<"c", "o", "n", "s", "t">>), SPlus, WPlus, SStar, Lit(<<"=">>)>>,
       <<Lit(<<"i", "f">>), SStar, Lit(<<"(">>)>>,
       <<Lit(<<"f", "o", "r">>), SStar, Lit(<<"(">>)>>,
       <<Lit(<<"w", "h", "i", "l", "e">>), SStar, Lit(<<"(">>)>>,
       <<Lit(<<"c", "l", "a", "s", "s">>), SPlus, WPlus>>,
       <<Lit(<<"{">>), SStar, WPlus, SStar, Lit(<<":">>)>>,
       <<Lit(<<"[">>), SStar, WPlus, SStar, Lit(<<",">>)>>,
       <<Lit(<<"<">>), WPlus, Lit(<<">">>), DotStar, Lit(<<"<", "/">>), WPlus, Lit(<<">">>)>> >>

_is_code(text) == \E k \in 1..Len(code_patterns) : re_search(code_patterns[k], text)

(***************************************************************************)
(* _is_likely_english                                                      *)
(***************************************************************************)
english_words ==
    << <<"t", "h", "e">>,
       <<"a", "n", "d">>,
       <<"w", "i", "t", "h">>,
       <<"f", "o", "r">>,
       <<"y", "o", "u", "r">>,
       <<"y", "o", "u">>,
       <<"i", "s">>,
       <<"a", "r", "e">>,
       <<"o", "n">>,
       <<"i", "n">>,
       <<"a", "t">>,
       <<"b", "y">>,
       <<"f", "r", "o", "m">>,
       <<"s", "e", "t", "t", "i", "n", "g", "s">>,
       <<"p", "r", "o", "f", "i", "l", "e">>,
       <<"a", "c", "c", "o", "u", "n", "t">>,
       <<"s", "a", "v", "e">>,
       <<"c", "a", "n", "c", "e", "l">>,
       <<"d", "e", "l", "e", "t", "e">>,
       <<"c", "r", "e", "a", "t", "e">>,
       <<"e", "d", "i", "t">>,
       <<"v", "i", "e", "w">>,
       <<"s", "e", "a", "r", "c", "h">>,
       <<"n", "e", "w">>,
       <<"d", "a", "s", "h", "b", "o", "a", "r", "d">>,
       <<"s", "i", "g", "n">>,
       <<"o", "u", "t">>,
       <<"l", "o", "g", "i", "n">>,
       <<"l", "o", "g", "o", "u", "t">>,
       <<"p", "a", "s", "s", "w", "o", "r", "d">>,
       <<"u", "s", "e", "r", "n", "a", "m", "e">>,
       <<"e", "m", "a", "i", "l">>,
       <<"p", "l", "e", "a", "s", "e">>,
       <<"e", "n", "t", "e", "r">>,
       <<"s", "u", "b", "m", "i", "t">>,
       <<"n", "o", "t", "i", "f", "i", "c", "a", "t", "i", "o", "n", "s">>,
       <<"m", "e", "s", "s", "a", "g", "e", "s">>,
       <<"l", "o", "a", "d", "i", "n", "g">>,
       <<"e", "r", "r", "o", "r">>,
       <<"s", "u", "c", "c", "e", "s", "s">> >>

\* r'\b' + re.escape(word) + r'\b': the lexicon words are plain letters, which
\* re.escape leaves as they are.
WordPattern(word) == <<WordB, Lit(word), WordB>>

\* _is_likely_english, had the patterns lacked the word boundaries.
_is_likely_english_substring(text) ==
    LET text_lower == lower(text)
    IN  \E k \in 1..Len(english_words) : re_search(<<Lit(english_words[k])>>, text_lower)

_is_likely_english(text) ==
    LET text_lower == lower(text)
    IN  \E k \in 1..Len(english_words) : re_search(WordPattern(english_words[k]), text_lower)

(***************************************************************************)
(* Scores and confidences.  A binary64 value is written as an integer      *)
(* number of thousandths; the two sums the scorer computes that are not    *)
(* the decimal they look like, 0.7 + 0.1 = 0.7999999999999999 and          *)
(* 0.7999999999999999 + 0.1 = 0.8999999999999999, are written 799 and 899, *)
(* below 800 (0.8) and 900 (0.9).  Service scores are whole hundredths.    *)
(***************************************************************************)
BaseConfidence == 700

Bonus == 100

ConfidenceCap == 950

ScoreThreshold == 700

\* The addition, had it been exact in decimals.
DecimalAdd(a, b) == a + b

\* binary64 addition on the operands the scorer adds.
FloatAdd(a, b) ==
    CASE a = 700 /\ b = 100 -> 799
      [] a = 799 /\ b = 100 -> 899
      [] OTHER              -> a + b

Min(a, b) == IF a <= b THEN a ELSE b

confidence_english_words ==
    << <<"t", "h", "e">>,
       <<"a", "n", "d">>,
       <<"w", "i", "t", "h">>,
       <<"f", "o", "r">>,
       <<"y", "o", "u", "r">>,
       <<"y", "o", "u">>,
       <<"i", "s">>,
       <<"a", "r", "e">>,
       <<"o", "n">>,
       <<"i", "n">>,
       <<"a", "t">>,
       <<"b", "y">>,
       <<"f", "r", "o", "m">>,
       <<"s", "e", "t", "t", "i", "n", "g", "s">>,
       <<"p", "r", "o", "f", "i", "l", "e">>,
       <<"a", "c", "c", "o", "u", "n", "t">>,
       <<"s", "a", "v", "e">>,
       <<"c", "a", "n", "c", "e", "l">>,
       <<"d", "e", "l", "e", "t", "e">>,
       <<"c", "r", "e", "a", "t", "e">>,
       <<"e", "d", "i", "t">>,
       <<"v", "i", "e", "w">>,
       <<"s", "e", "a", "r", "c", "h">>,
       <<"n", "e", "w">>,
       <<"d", "a", "s", "h", "b", "o", "a", "r", "d">>,
       <<"s", "i", "g", "n">>,
       <<"o", "u", "t">>,
       <<"l", "o", "g", "i", "n">>,
       <<"l", "o", "g", "o", "u", "t">>,
       <<"p", "a", "s", "s", "w", "o", "r", "d">>,
       <<"u", "s", "e", "r", "n", "a", "m", "e">>,
       <<"e", "m", "a", "i", "l">>,
       <<"p", "l", "e", "a", "s", "e">>,
       <<"e", "n", "t", "e", "r">>,
       <<"s", "u", "b", "m", "i", "t">>,
       <<"n", "o", "t", "i", "f", "i", "c", "a", "t", "i", "o", "n", "s">>,
       <<"m", "e", "s", "s", "a", "g", "e", "s">>,
       <<"l", "o", "a", "d", "i", "n", "g">>,
       <<"e", "r", "r", "o", "r">>,
       <<"s", "u", "c", "c", "e", "s", "s">> >>

\* The number of lexicon words found in the lower-cased text as whole words.
english_word_count(text) ==
    LET text_lower == lower(text)
    IN  Cardinality({k \in 1..Len(confidence_english_words) :
            re_search(WordPattern(confidence_english_words[k]), text_lower)})

\* _calculate_confidence, had it added the bonus once per lexicon word found
\* and returned the sum as it is.
_calculate_confidence_per_word(text) ==
    BaseConfidence + Bonus * english_word_count(text)

\* _calculate_confidence, had two lexicon words been enough for the bonus.
_calculate_confidence_from_two(text) ==
    LET c0 == BaseConfidence
        c1 == IF Len(text) > 20 THEN FloatAdd(c0, Bonus) ELSE c0
        c2 == IF english_word_count(text) >= 2 THEN FloatAdd(c1, Bonus) ELSE c1
    IN  Min(c2, ConfidenceCap)

_calculate_confidence(text) ==
    LET c0 == BaseConfidence
        c1 == IF Len(text) > 20 THEN FloatAdd(c0, Bonus) ELSE c0
        c2 == IF english_word_count(text) > 2 THEN FloatAdd(c1, Bonus) ELSE c1
    IN  Min(c2, ConfidenceCap)

(***************************************************************************)
(* _analyze_with_heuristic                                                 *)
(***************************************************************************)
Gap(location, text, confidence) ==
    [location |-> location, text |-> text, confidence |-> confidence]

RECURSIVE _analyze_with_heuristic(_, _)
_analyze_with_heuristic(texts, location) ==
    IF texts = <<>> THEN <<>>
    ELSE LET text == Head(texts)
             rest == _analyze_with_heuristic(Tail(texts), location)
         IN  IF _is_likely_english(text)
             THEN <<Gap(location, text, _calculate_confidence(text))>> \o rest
             ELSE rest

(***************************************************************************)
(* The remote service: batch_detect_dominant_language answers a TextList   *)
(* with a ResultList, one result per text, each a list of                  *)
(* (LanguageCode, Score) pairs, or the call raises.                        *)
(***************************************************************************)
Lang(code, score) == [LanguageCode |-> code, Score |-> score]

Result(languages) == [Languages |-> languages]

\* max(languages, key=lambda x: x['Score']): the first entry of highest score.
dominant_lang(languages) ==
    LET top == CHOOSE k \in 1..Len(languages) :
                   /\ \A m \in 1..Len(languages) : languages[m].Score <= languages[k].Score
                   /\ \A m \in 1..(k - 1) : languages[m].Score < languages[k].Score
    IN  languages[top]

\* Whether reading result j raises: max() of an empty list.
ReadRaises(valid_batch, ResultList, j) ==
    j > Len(valid_batch) \/ ResultList[j].Languages = <<>>

\* The acceptance test, had it compared with >= .
RemoteAcceptsAtThreshold(dominant) ==
    dominant.LanguageCode = "en" /\ dominant.Score >= ScoreThreshold

\* The acceptance test of the remote path.
RemoteAccepts(dominant) ==
    dominant.LanguageCode = "en" /\ dominant.Score > ScoreThreshold

RECURSIVE ReadResults(_, _, _, _)
\* The loop over response['ResultList'] from result j on: the records it
\* appends, and whether it ended in an exception.
ReadResults(valid_batch, ResultList, location, j) ==
    IF j > Len(ResultList) THEN [gaps |-> <<>>, raised |-> FALSE]
    ELSE IF ReadRaises(valid_batch, ResultList, j) THEN [gaps |-> <<>>, raised |-> TRUE]
    ELSE LET text     == valid_batch[j]
             dominant == dominant_lang(ResultList[j].Languages)
             rest     == ReadResults(valid_batch, ResultList, location, j + 1)
         IN  IF RemoteAccepts(dominant)
             THEN [gaps |-> <<Gap(location, text, dominant.Score)>> \o rest.gaps,
                   raised |-> rest.raised]
             ELSE rest

(***************************************************************************)
(* load_aws_credentials and __init__                                       *)
(***************************************************************************)
required_keys == {"AWS_ACCESS_KEY_ID", "AWS_SECRET_ACCESS_KEY", "AWS_REGION"}

\* A key file: absent, or the set of required keys it gives a value.
KeyFiles == {[exists |-> FALSE, keys |-> {}]} \cup
            {[exists |-> TRUE, keys |-> ks] : ks \in SUBSET required_keys}

\* load_aws_credentials: raises when the file is absent or a required key is
\* missing from it, else returns the credentials found.
load_aws_credentials(key_file) ==
    LET aws_credentials == key_file.keys \cap required_keys
        missing_keys    == required_keys \ aws_credentials
    IN  IF ~key_file.exists \/ missing_keys # {}
        THEN [raises |-> TRUE, credentials |-> {}]
        ELSE [raises |-> FALSE, credentials |-> aws_credentials]

\* __init__, had it set the flag after the try statement instead of inside it.
init_initialized_after_try(key_file, client_ok) == TRUE

\* __init__: the value self.initialized ends with.  The try block loads the
\* credentials, reads the three keys and builds the client; any exception
\* leads to the except clause.
init_initialized(key_file, client_ok) ==
    LET loaded == load_aws_credentials(key_file)
    IN  IF loaded.raises THEN FALSE
        ELSE IF ~(required_keys \subseteq loaded.credentials) THEN FALSE
        ELSE IF ~client_ok THEN FALSE
        ELSE TRUE

(***************************************************************************)
(* Page markup: the text nodes of the document in document order, each     *)
(* with the path of elements it lies in.                                   *)
(***************************************************************************)
Node(path, text) == [path |-> path, text |-> text]

NodePrompt == Node(<<"html", "body", "label">>,
                   <<"\n", " ", " ", "P", "l", "e", "a", "s", "e", " ", "e", "n", "t", "e", "r", " ", "y", "o", "u", "r", " ", "p", "a", "s", "s", "w", "o", "r", "d", "\n">>)
NodeFrench == Node(<<"html", "body", "p">>, <<"B", "i", "e", "n", "v", "e", "n", "u", "e">>)
NodeNumber == Node(<<"html", "body", "span">>, <<"1", "2", "3", "4", "5">>)
NodeScript == Node(<<"html", "body", "script">>, <<"v", "a", "r", " ", "x", " ", "=", " ", "1", ";">>)
NodeLogin  == Node(<<"html", "body", "a">>, <<"L", "o", "g", "i", "n">>)

FreeNodes == {NodePrompt, NodeFrench, NodeNumber, NodeScript}

PadNodes == {NodeLogin}

\* Text nodes of short pages: wording, digits, one character, code, blank.
NodeSave        == Node(<<"html", "body", "p">>,
                        <<"P", "l", "e", "a", "s", "e", " ", "S", "a", "v", "e", " ", "y", "o", "u", "r", " ", "s", "e", "t", "t", "i", "n", "g", "s">>)
NodeParametres  == Node(<<"html", "body", "p">>, <<"P", "a", "r", "a", "m", "U+00E8", "t", "r", "e", "s">>)
NodeInformation == Node(<<"html", "body", "h1">>, <<"I", "n", "f", "o", "r", "m", "a", "t", "i", "o", "n">>)
NodeClock       == Node(<<"html", "body", "span">>, <<"a", "t", " ", "1", "0", ":", "3", "0", ":", "4", "5">>)
NodeLetter      == Node(<<"html", "body", "span">>, <<"x">>)
NodeFunction    == Node(<<"html", "body", "pre">>, <<"f", "u", "n", "c", "t", "i", "o", "n", " ", "f", "o", "o", "(">>)
NodeLet         == Node(<<"html", "body", "pre">>, <<"l", "e", "t", " ", "x", " ", "=">>)
NodeDiv         == Node(<<"html", "body", "pre">>, <<"<", "d", "i", "v", ">", "t", "e", "x", "t", "<", "/", "d", "i", "v", ">">>)
NodeBlank       == Node(<<"html", "body">>, <<"\n", " ", " ">>)
NodeAlert       == Node(<<"html", "head", "script">>,
                        <<"a", "l", "e", "r", "t", "(", "'", "P", "l", "e", "a", "s", "e", " ", "s", "i", "g", "n", " ", "i", "n", "'", ")">>)
NodeSignOut     == Node(<<"html", "body", "a">>, <<"S", "i", "g", "n", " ", "i", "n", " ", "o", "r", " ", "o", "u", "t">>)
NodeLoading     == Node(<<"html", "body", "div">>,
                        <<"C", "h", "a", "r", "g", "e", "m", "e", "n", "t", ":", " ", "l", "o", "a", "d", "i", "n", "g", " ", "y", "o", "u", "r", " ", "p", "a", "g", "e">>)
NodeComment     == Node(<<"html", "head", "style">>,
                        <<"/", "*", " ", "a", "c", "c", "o", "u", "n", "t", " ", "v", "i", "e", "w", " ", "*", "/">>)

TextNodes == {NodeSave, NodeParametres, NodeInformation, NodeClock, NodeNumber, NodeLetter,
              NodeFunction, NodeLet, NodeDiv, NodeBlank, NodeAlert, NodeComment,
              NodeSignOut, NodeLoading}

\* The page of the login scenario: a script, an English and a French paragraph.
NodeVar      == Node(<<"html", "body", "script">>, <<"v", "a", "r", " ", "x", "=", "1", ";">>)
NodePassword == Node(<<"html", "body", "p">>,
                     <<"P", "l", "e", "a", "s", "e", " ", "e", "n", "t", "e", "r", " ", "y", "o", "u", "r", " ", "p", "a", "s", "s", "w", "o", "r", "d">>)

ScenarioPage == <<NodeVar, NodePassword, NodeFrench>>

\* extract, had only the script subtrees been removed.
RECURSIVE extract_keeping_style(_)
extract_keeping_style(html) ==
    IF html = <<>> THEN <<>>
    ELSE LET node == Head(html)
             text == strip(node.text)
             rest == extract_keeping_style(Tail(html))
         IN  IF /\ "script" \notin Range(node.path)
                /\ text # <<>>
                /\ ~_is_code(text)
             THEN <<text>> \o rest
             ELSE rest

\* soup(["script", "style"]) ... extract(), find_all(text=True), strip, _is_code
RECURSIVE extract(_)
extract(html) ==
    IF html = <<>> THEN <<>>
    ELSE LET node == Head(html)
             text == strip(node.text)
             rest == extract(Tail(html))
         IN  IF /\ Range(node.path) \cap {"script", "style"} = {}
                /\ text # <<>>
                /\ ~_is_code(text)
             THEN <<text>> \o rest
             ELSE rest

(***************************************************************************)
(* Inputs of the model                                                     *)
(***************************************************************************)
batch_size == 25

\* Number of freely chosen text nodes at the head of a page.
MaxFree == 1

\* Number of leading results of a response that may differ from the rest.
MaxDev == 2

\* Number of text nodes of a short page.
MaxNodes == 2

Pad(node, n) == [k \in 1..n |-> node]

Heads == UNION {[1..n -> FreeNodes] : n \in 0..MaxFree}

\* A page: free nodes alone, or before or after a run of batch_size equal nodes.
Pages == Heads \cup {h \o Pad(nd, batch_size) : h \in Heads, nd \in PadNodes}
               \cup {Pad(nd, batch_size) \o h : h \in Heads, nd \in PadNodes}

\* The short pages: every sequence of a few text nodes, and the scenario page.
TextPages == UNION {[1..n -> TextNodes] : n \in 0..MaxNodes} \cup {ScenarioPage}

Locations == {"Login", "Login > Modal"}

ResultEnglish    == Result(<<Lang("en", 990)>>)
ResultEnglishLow == Result(<<Lang("en", 700)>>)
ResultFrench     == Result(<<Lang("fr", 900), Lang("en", 100)>>)
ResultMixed      == Result(<<Lang("fr", 200), Lang("en", 800)>>)
ResultEmpty      == Result(<<>>)

Results == {ResultEnglish, ResultEnglishLow, ResultFrench, ResultMixed, ResultEmpty}

BaseResults == {ResultEnglish, ResultFrench}

\* The responses to a TextList of n texts: one result per text, all equal but
\* for at most one of the leading results.
ResultLists(n) ==
    {[j \in 1..n |-> IF j = p THEN r1 ELSE r0] :
        r0 \in BaseResults, p \in 1..Min(n, MaxDev), r1 \in Results}

(***************************************************************************)
(* The analyzer                                                            *)
(***************************************************************************)
VARIABLES
    pc,                 \* "new", "ready", "loop", "except", "returned"
    key_file,           \* the key file the analyzer was constructed from
    initialized,        \* self.initialized
    filtered_elements,  \* the extracted fragments of the page being analyzed
    location,           \* the location argument
    i,                  \* the offset of the current batch
    gaps,               \* the gap list being built, returned at the end
    calls,              \* what each batch of this analyze_page call did
    page_source         \* the markup argument of the call

analyzer_vars ==
    <<pc, key_file, initialized, filtered_elements, location, i, gaps, calls, page_source>>

\* The scan loop of main
VARIABLES
    urls,               \* the configured URL entries
    url_index,          \* the position of the loop in urls, from 1
    step,               \* "idle", "navigate", "main_page", "click", "modal", "done"
    browser_page,       \* the page source the browser holds
    all_gaps,           \* all_gaps
    scan_log,           \* what the loop did, one entry per step
    returned_calls      \* what a caller that keeps its results got, call by call

main_vars ==
    <<urls, url_index, step, browser_page, all_gaps, scan_log, returned_calls>>

vars == <<analyzer_vars, main_vars>>

\* main before the scan loop.
MainIdle ==
    /\ urls = <<>>
    /\ url_index = 0
    /\ step = "idle"
    /\ browser_page = <<>>
    /\ all_gaps = <<>>
    /\ scan_log = <<>>
    /\ returned_calls = <<>>

Init ==
    /\ pc = "new"
    /\ key_file = [exists |-> FALSE, keys |-> {}]
    /\ initialized = FALSE
    /\ filtered_elements = <<>>
    /\ location = ""
    /\ i = 0
    /\ gaps = <<>>
    /\ calls = <<>>
    /\ page_source = <<>>
    /\ MainIdle

\* __init__: never raises; sets self.initialized.
Construct(file, client_ok) ==
    /\ pc = "new"
    /\ key_file' = file
    /\ initialized' = init_initialized(file, client_ok)
    /\ pc' = "ready"
    /\ UNCHANGED <<filtered_elements, location, i, gaps, calls, page_source>>
    /\ UNCHANGED main_vars

\* The test, had it lacked the length condition.
IsValidTextOfAnyLength(text) == ~isdigit(text)

\* len(text) > 1 and not text.isdigit()
IsValidText(text) == Len(text) > 1 /\ ~isdigit(text)

\* The slice, had it run one element further.
batch_one_more(elements, k) ==
    SubSeq(elements, k + 1, Min(k + batch_size + 1, Len(elements)))

\* filtered_elements[i:i+batch_size]
batch(elements, k) == SubSeq(elements, k + 1, Min(k + batch_size, Len(elements)))

valid_batch(elements, k) == SelectSeq(batch(elements, k), IsValidText)

\* The step of the range, had it been one more than the slice is long.
NextOffsetSkipping(k) == k + batch_size + 1

\* The next value of range(0, len(filtered_elements), batch_size).
NextOffset(k) == k + batch_size

Event(backend, texts, results, raised, hi) ==
    [batch |-> i, backend |-> backend, TextList |-> texts, ResultList |-> results,
     raised |-> raised, lo |-> Len(gaps), hi |-> hi]

\* extract, computed once for every page of the model.
extracted == [html \in Pages \cup TextPages |-> extract(html)]

\* AnalyzePage, had the gap list been kept on the analyzer between calls.
AnalyzePageKeepingGaps(html, loc) ==
    /\ pc = "ready"
    /\ filtered_elements' = extracted[html]
    /\ location' = loc
    /\ i' = 0
    /\ calls' = <<>>
    /\ pc' = "loop"
    /\ page_source' = html
    /\ UNCHANGED <<key_file, initialized, gaps>>
    /\ UNCHANGED main_vars

\* analyze_page up to the loop: parse, drop script/style, collect and filter.
AnalyzePage(html, loc) ==
    /\ pc = "ready"
    /\ filtered_elements' = extracted[html]
    /\ location' = loc
    /\ i' = 0
    /\ gaps' = <<>>
    /\ calls' = <<>>
    /\ pc' = "loop"
    /\ page_source' = html
    /\ UNCHANGED <<key_file, initialized>>
    /\ UNCHANGED main_vars

\* if not valid_batch: continue
SkipBatch ==
    /\ pc = "loop"
    /\ i < Len(filtered_elements)
    /\ valid_batch(filtered_elements, i) = <<>>
    /\ calls' = Append(calls, Event("none", <<>>, <<>>, FALSE, Len(gaps)))
    /\ i' = NextOffset(i)
    /\ UNCHANGED <<pc, key_file, initialized, filtered_elements, location, gaps, page_source>>
    /\ UNCHANGED main_vars

\* else: gaps.extend(self._analyze_with_heuristic(valid_batch, location))
HeuristicBatch ==
    /\ pc = "loop"
    /\ i < Len(filtered_elements)
    /\ valid_batch(filtered_elements, i) # <<>>
    /\ ~initialized
    /\ LET texts == valid_batch(filtered_elements, i)
           found == _analyze_with_heuristic(texts, location)
       IN  /\ gaps' = gaps \o found
           /\ calls' = Append(calls, Event("heuristic", texts, <<>>, FALSE, Len(gaps) + Len(found)))
    /\ i' = NextOffset(i)
    /\ UNCHANGED <<pc, key_file, initialized, filtered_elements, location, page_source>>
    /\ UNCHANGED main_vars

\* The service call raises: control goes to the except clause.
RemoteRaise ==
    /\ pc = "loop"
    /\ i < Len(filtered_elements)
    /\ valid_batch(filtered_elements, i) # <<>>
    /\ initialized
    /\ calls' = Append(calls, Event("remote", valid_batch(filtered_elements, i), <<>>, TRUE, Len(gaps)))
    /\ pc' = "except"
    /\ UNCHANGED <<key_file, initialized, filtered_elements, location, i, gaps, page_source>>
    /\ UNCHANGED main_vars

\* The service answers and the response is read, result by result; reading
\* may raise, and then control goes to the except clause.
RemoteResponse(ResultList) ==
    /\ pc = "loop"
    /\ i < Len(filtered_elements)
    /\ valid_batch(filtered_elements, i) # <<>>
    /\ initialized
    /\ LET texts == valid_batch(filtered_elements, i)
           read  == ReadResults(texts, ResultList, location, 1)
       IN  /\ gaps' = gaps \o read.gaps
           /\ calls' = Append(calls, Event("remote", texts, ResultList, read.raised,
                                           Len(gaps) + Len(read.gaps)))
           /\ pc' = IF read.raised THEN "except" ELSE "loop"
           /\ i' = IF read.raised THEN i ELSE NextOffset(i)
    /\ UNCHANGED <<key_file, initialized, filtered_elements, location, page_source>>
    /\ UNCHANGED main_vars

\* Fallback, had the except clause tried the same batch again.
FallbackRetries ==
    /\ pc = "except"
    /\ pc' = "loop"
    /\ UNCHANGED <<key_file, initialized, filtered_elements, location, i, gaps, calls, page_source>>
    /\ UNCHANGED main_vars

\* Fallback, had the except clause also given up on the remote backend.
FallbackDisablesRemote ==
    /\ pc = "except"
    /\ LET texts == SelectSeq(SubSeq(filtered_elements, i + 1,
                                     Min(i + batch_size, Len(filtered_elements))),
                              IsValidText)
           found == _analyze_with_heuristic(texts, location)
       IN  /\ gaps' = gaps \o found
           /\ calls' = Append(calls, Event("heuristic", texts, <<>>, FALSE, Len(gaps) + Len(found)))
    /\ i' = i + batch_size
    /\ pc' = "loop"
    /\ initialized' = FALSE
    /\ UNCHANGED <<key_file, filtered_elements, location, page_source>>
    /\ UNCHANGED main_vars

\* except Exception: gaps.extend(self._analyze_with_heuristic(valid_batch, location))
Fallback ==
    /\ pc = "except"
    /\ LET texts == valid_batch(filtered_elements, i)
           found == _analyze_with_heuristic(texts, location)
       IN  /\ gaps' = gaps \o found
           /\ calls' = Append(calls, Event("heuristic", texts, <<>>, FALSE, Len(gaps) + Len(found)))
    /\ i' = NextOffset(i)
    /\ pc' = "loop"
    /\ UNCHANGED <<key_file, initialized, filtered_elements, location, page_source>>
    /\ UNCHANGED main_vars

\* return gaps
Return ==
    /\ pc = "loop"
    /\ i >= Len(filtered_elements)
    /\ pc' = "returned"
    /\ UNCHANGED <<key_file, initialized, filtered_elements, location, i, gaps, calls, page_source>>
    /\ UNCHANGED main_vars

\* The caller has taken the returned list; the locals of the call are gone.
Release ==
    /\ pc = "returned"
    /\ pc' = "ready"
    /\ filtered_elements' = <<>>
    /\ location' = ""
    /\ i' = 0
    /\ gaps' = <<>>
    /\ calls' = <<>>
    /\ page_source' = <<>>
    /\ UNCHANGED <<key_file, initialized>>
    /\ UNCHANGED main_vars

Next ==
    \/ \E file \in KeyFiles, client_ok \in BOOLEAN : Construct(file, client_ok)
    \/ \E html \in Pages, loc \in Locations : AnalyzePage(html, loc)
    \/ SkipBatch
    \/ HeuristicBatch
    \/ RemoteRaise
    \/ \E ResultList \in ResultLists(Len(valid_batch(filtered_elements, i))) :
           RemoteResponse(ResultList)
    \/ Fallback
    \/ Return
    \/ Release

Spec == Init /\ [][Next]_vars

\* The responses to a TextList of n texts in which every result is the same.
UniformResultLists(n) == {[j \in 1..n |-> r] : r \in BaseResults}

\* The key files of the short-page runs: none, and a complete one.
TextKeyFiles == {[exists |-> FALSE, keys |-> {}], [exists |-> TRUE, keys |-> required_keys]}

\* The analyzer called on the short pages.
NextTexts ==
    \/ \E file \in TextKeyFiles : Construct(file, TRUE)
    \/ \E html \in TextPages : AnalyzePage(html, "Login")
    \/ SkipBatch
    \/ HeuristicBatch
    \/ RemoteRaise
    \/ \E ResultList \in UniformResultLists(Len(valid_batch(filtered_elements, i))) :
           RemoteResponse(ResultList)
    \/ Fallback
    \/ Return
    \/ Release

SpecTexts == Init /\ [][NextTexts]_vars

\* Number of calls of a caller that repeats its call.
MaxCalls == 2

\* The caller keeps the returned list with the arguments of the call.
KeepResult ==
    /\ pc = "returned"
    /\ Len(returned_calls) < MaxCalls
    /\ returned_calls' = Append(returned_calls,
                                [page_source |-> page_source, location |-> location, gaps |-> gaps])
    /\ pc' = "ready"
    /\ UNCHANGED <<key_file, initialized, filtered_elements, location, i, gaps, calls, page_source>>
    /\ UNCHANGED <<urls, url_index, step, browser_page, all_gaps, scan_log>>

\* The arguments are those of the caller's earlier calls, if there were any.
SameArguments(html, loc) ==
    \A n \in 1..Len(returned_calls) :
        returned_calls[n].page_source = html /\ returned_calls[n].location = loc

\* An analyzer without credentials, called again and again with the same
\* markup and location.
NextRepeat ==
    \/ \E file \in TextKeyFiles : Construct(file, FALSE)
    \/ \E html \in Pages, loc \in Locations :
           SameArguments(html, loc) /\ AnalyzePage(html, loc)
    \/ SkipBatch
    \/ HeuristicBatch
    \/ Return
    \/ KeepResult

SpecRepeat == Init /\ [][NextRepeat]_vars

(***************************************************************************)
(* The scan loop of main, with an analyzer that has no credentials         *)
(***************************************************************************)
\* ui_element of a line without a third field.
None == "None"

Names == {"Login", "Settings"}

\* None, an empty third field, a selector.
Selectors == {None, "", "#open"}

UrlItems == {[name |-> n, ui_element |-> u] : n \in Names, u \in Selectors}

\* Number of lines of the config file.
MaxUrls == 2

\* load_urls returns at least one entry.
UrlLists == UNION {[1..n -> UrlItems] : n \in 1..MaxUrls}

\* The page source the site shows for a page, and with the modal open.
SourceOf(name) == IF name = "Login" THEN <<NodeSave>> ELSE <<NodeParametres, NodeLoading>>

ModalSource == <<NodeSignOut>>

\* if ui_element:
Truthy(ui_element) == ui_element \notin {None, ""}

\* analyze_page of an analyzer with initialized False, as one step.
RECURSIVE heuristic_batches(_, _, _)
heuristic_batches(elements, loc, k) ==
    IF k >= Len(elements) THEN <<>>
    ELSE LET texts == valid_batch(elements, k)
             found == IF texts = <<>> THEN <<>> ELSE _analyze_with_heuristic(texts, loc)
         IN  found \o heuristic_batches(elements, loc, NextOffset(k))

analyze_page(html, loc) == heuristic_batches(extracted[html], loc, 0)

\* The loop, had the except clause ended it.
ExceptBreak(k) == [url_index |-> k, step |-> "done"]

\* for i, url_item in enumerate(urls, 1): the next entry, or the end.
NextIteration(k) ==
    [url_index |-> k + 1, step |-> IF k + 1 > Len(urls) THEN "done" ELSE "navigate"]

\* except Exception as e: print; continue
ExceptContinue(k) == NextIteration(k)

\* The step after the click, had main looked at what click_element returned.
StepAfterClickIfClicked(result) == IF result THEN "modal" ELSE "no_modal"

\* browser.click_element(ui_element): the result is dropped.
StepAfterClick(result) == "modal"

\* One step of the loop: the entry, the call, whether it returned, the page
\* source at the time, the list an analysis returned, and the length of
\* all_gaps before and after.
LogEntry(what, ok, page, returned) ==
    [url |-> url_index, what |-> what, ok |-> ok, page |-> page, returned |-> returned,
     lo |-> Len(all_gaps), hi |-> Len(all_gaps) + Len(returned)]

\* load_urls, all_gaps = [], the first iteration; the browser already shows
\* the first URL.
StartScan(list) ==
    /\ step = "idle"
    /\ pc = "ready"
    /\ ~initialized
    /\ urls' = list
    /\ url_index' = 1
    /\ step' = "navigate"
    /\ browser_page' = SourceOf(list[1].name)
    /\ all_gaps' = <<>>
    /\ UNCHANGED <<scan_log, returned_calls>>
    /\ UNCHANGED analyzer_vars

\* browser.navigate_to(url) returns.
Navigate ==
    /\ step = "navigate"
    /\ browser_page' = SourceOf(urls[url_index].name)
    /\ step' = "main_page"
    /\ scan_log' = Append(scan_log, LogEntry("navigate", TRUE, browser_page', <<>>))
    /\ UNCHANGED <<urls, url_index, all_gaps, returned_calls>>
    /\ UNCHANGED analyzer_vars

\* browser.navigate_to(url) raises.
NavigateRaises ==
    /\ step = "navigate"
    /\ scan_log' = Append(scan_log, LogEntry("navigate", FALSE, browser_page, <<>>))
    /\ url_index' = ExceptContinue(url_index).url_index
    /\ step' = ExceptContinue(url_index).step
    /\ UNCHANGED <<urls, browser_page, all_gaps, returned_calls>>
    /\ UNCHANGED analyzer_vars

\* main_page_gaps = analyzer.analyze_page(...); all_gaps.extend(main_page_gaps)
AnalyzeMainPage ==
    /\ step = "main_page"
    /\ LET found == analyze_page(browser_page, urls[url_index].name)
       IN  /\ all_gaps' = all_gaps \o found
           /\ scan_log' = Append(scan_log, LogEntry("main_page", TRUE, browser_page, found))
    /\ IF Truthy(urls[url_index].ui_element)
       THEN step' = "click" /\ url_index' = url_index
       ELSE /\ step' = NextIteration(url_index).step
            /\ url_index' = NextIteration(url_index).url_index
    /\ UNCHANGED <<urls, browser_page, returned_calls>>
    /\ UNCHANGED analyzer_vars

\* browser.get_page_source() or analyze_page raises, for the page or the modal.
AnalysisRaises ==
    /\ step \in {"main_page", "modal"}
    /\ scan_log' = Append(scan_log, LogEntry(step, FALSE, browser_page, <<>>))
    /\ url_index' = ExceptContinue(url_index).url_index
    /\ step' = ExceptContinue(url_index).step
    /\ UNCHANGED <<urls, browser_page, all_gaps, returned_calls>>
    /\ UNCHANGED analyzer_vars

\* click_element returns True (the modal is open) or False (nothing changed).
ClickElement(result) ==
    /\ step = "click"
    /\ browser_page' = IF result THEN ModalSource ELSE browser_page
    /\ step' = StepAfterClick(result)
    /\ scan_log' = Append(scan_log, LogEntry("click", result, browser_page', <<>>))
    /\ UNCHANGED <<urls, url_index, all_gaps, returned_calls>>
    /\ UNCHANGED analyzer_vars

\* modal_gaps = analyzer.analyze_page(..., f"{page_name} > Modal"); extend
AnalyzeModal ==
    /\ step = "modal"
    /\ LET found == analyze_page(browser_page, urls[url_index].name \o " > Modal")
       IN  /\ all_gaps' = all_gaps \o found
           /\ scan_log' = Append(scan_log, LogEntry("modal", TRUE, browser_page, found))
    /\ step' = NextIteration(url_index).step
    /\ url_index' = NextIteration(url_index).url_index
    /\ UNCHANGED <<urls, browser_page, returned_calls>>
    /\ UNCHANGED analyzer_vars

NextMain ==
    \/ Construct([exists |-> FALSE, keys |-> {}], FALSE)
    \/ \E list \in UrlLists : StartScan(list)
    \/ Navigate
    \/ NavigateRaises
    \/ AnalyzeMainPage
    \/ AnalysisRaises
    \/ \E result \in BOOLEAN : ClickElement(result)
    \/ AnalyzeModal

SpecMain == Init /\ [][NextMain]_vars

(***************************************************************************)
(* Reading the record of a call                                            *)
(***************************************************************************)
\* The records batch event k appended to gaps.
Slice(k) == SubSeq(gaps, calls[k].lo + 1, calls[k].hi)

\* Whether event k is a remote attempt that ended in the except clause.
FailedRemote(k) == calls[k].backend = "remote" /\ calls[k].raised

\* Whether event k is a remote attempt whose response was read to the end.
GoodRemote(k) == calls[k].backend = "remote" /\ ~calls[k].raised

\* The records of gaps that the batch of the failed remote attempt k has
\* contributed once its fallback (event k + 1) has run.
FailedBatchRecords(k) == SubSeq(gaps, calls[k].lo + 1, calls[k + 1].hi)

\* The backend whose event appended record r of gaps.
BackendOf(r) ==
    LET k == CHOOSE k \in 1..Len(calls) : calls[k].lo < r /\ r <= calls[k].hi
    IN  calls[k].backend

\* Whether entry a of the languages is the one max() returns: the first of
\* the highest score.
IsDominant(languages, a) ==
    /\ \A b \in 1..(a - 1) : languages[b].Score < languages[a].Score
    /\ \A b \in (a + 1)..Len(languages) : languages[b].Score <= languages[a].Score

\* The positions of remote event k whose result is English above 0.7.
AcceptedPositions(k) ==
    {j \in 1..Len(calls[k].ResultList) :
        LET languages == calls[k].ResultList[j].Languages
        IN  \E a \in 1..Len(languages) :
                /\ IsDominant(languages, a)
                /\ languages[a].LanguageCode = "en"
                /\ languages[a].Score > 700}

\* The highest score of result j of event k.
TopScore(k, j) ==
    LET languages == calls[k].ResultList[j].Languages
    IN  CHOOSE x \in {languages[a].Score : a \in 1..Len(languages)} :
            \A a \in 1..Len(languages) : languages[a].Score <= x

\* Whether the key file is absent or lacks one of the three required keys.
ConfigurationFails ==
    \/ ~key_file.exists
    \/ ~({"AWS_ACCESS_KEY_ID", "AWS_SECRET_ACCESS_KEY", "AWS_REGION"} \subseteq key_file.keys)

Ceil(n, d) == (n + d - 1) \div d

\* Whether a fragment passes the filter applied inside a batch.
Admitted(text) == Len(text) > 1 /\ \E c \in Range(text) : c \notin DigitChars

\* The positions of filtered_elements in lo..hi holding an admitted fragment.
AdmittedIn(lo, hi) ==
    {x \in lo..hi : x <= Len(filtered_elements) /\ Admitted(filtered_elements[x])}

\* The offsets of the batches that reached a backend.
ClassifiedBatches == {calls[k].batch : k \in {m \in 1..Len(calls) : calls[m].backend # "none"}}

\* The offsets of the batches taken up so far.
BatchOffsets == {calls[k].batch : k \in 1..Len(calls)}

RECURSIVE IsSubsequence(_, _)
\* Whether a can be got from b by deleting elements.
IsSubsequence(a, b) ==
    IF a = <<>> THEN TRUE
    ELSE IF b = <<>> THEN FALSE
    ELSE IF Head(a) = Head(b) THEN IsSubsequence(Tail(a), Tail(b))
    ELSE IsSubsequence(a, Tail(b))

(***************************************************************************)
(* C1. Fallback equality: when remote classification of a batch fails (the *)
(* call raises, or reading the response raises), the records the batch     *)
(* contributes are exactly what _analyze_with_heuristic alone produces for *)
(* the batch: nothing is left over from the failed remote attempt.         *)
(* The code appends remote records to gaps while it reads the response, so *)
(* this is violated when reading raises after a record was appended.       *)
(***************************************************************************)
C1_FallbackEquality ==
    \A k \in 1..(Len(calls) - 1) :
        FailedRemote(k) =>
            FailedBatchRecords(k) = _analyze_with_heuristic(calls[k].TextList, location)

(***************************************************************************)
(* C2. Batch-scoped fallback: a failed remote call leaves initialized true *)
(* and touches no other batch.  In every state of a call: initialized      *)
(* still holds after any remote attempt; with initialized set, the         *)
(* heuristic runs only as the fallback of a failed remote attempt on the   *)
(* same batch, so every batch is tried remotely first; the events' slices  *)
(* tile gaps in order; and the records of a remote batch read to the end   *)
(* are those its own texts and its own response give, whatever happened to *)
(* the other batches.                                                      *)
(***************************************************************************)
C2_BatchScopedFallback ==
    /\ (\E k \in 1..Len(calls) : calls[k].backend = "remote") => initialized
    /\ \A k \in 1..Len(calls) :
           (initialized /\ calls[k].backend = "heuristic") =>
               /\ k > 1
               /\ FailedRemote(k - 1)
               /\ calls[k - 1].batch = calls[k].batch
    /\ \A k \in 1..Len(calls) :
           /\ calls[k].lo = (IF k = 1 THEN 0 ELSE calls[k - 1].hi)
           /\ calls[k].lo <= calls[k].hi
    /\ (calls # <<>>) => calls[Len(calls)].hi = Len(gaps)
    /\ \A k \in 1..Len(calls) :
           GoodRemote(k) =>
               Slice(k) = ReadResults(calls[k].TextList, calls[k].ResultList, location, 1).gaps

\* A failed remote batch, then a later batch of the same call answered by the
\* remote service with a record of its own.
C2_Witness ==
    \E k \in 1..Len(calls), m \in 1..Len(calls) :
        /\ FailedRemote(k)
        /\ GoodRemote(m)
        /\ calls[k].batch < calls[m].batch
        /\ Slice(m) # <<>>

(***************************************************************************)
(* C3. analyze_page absorbs classification failures: when it has returned, *)
(* every batch that reached a backend has the records of exactly one       *)
(* backend: those of the remote response, or those of the heuristic.       *)
(* Violated with C1: a response whose reading raises midway leaves remote  *)
(* records in gaps beside the heuristic ones.                              *)
(***************************************************************************)
C3_OneBackendPerBatch ==
    (pc = "returned") =>
        \A k \in 1..Len(calls) :
            /\ GoodRemote(k) =>
                   Slice(k) = ReadResults(calls[k].TextList, calls[k].ResultList, location, 1).gaps
            /\ FailedRemote(k) =>
                   /\ k < Len(calls)
                   /\ calls[k + 1].backend = "heuristic"
                   /\ FailedBatchRecords(k) =
                          _analyze_with_heuristic(calls[k].TextList, location)
            /\ (calls[k].backend = "heuristic" /\ (k = 1 \/ ~FailedRemote(k - 1))) =>
                   Slice(k) = _analyze_with_heuristic(calls[k].TextList, location)

(***************************************************************************)
(* C4. Confidence range.  As claimed: every record analyze_page returns    *)
(* has a confidence in [0.0, 0.95], on both paths.  The remote path stores *)
(* the service's score as it is, and that may exceed 0.95.                 *)
(***************************************************************************)
C4_ConfidenceAtMostCap ==
    (pc = "returned") =>
        \A r \in 1..Len(gaps) : gaps[r].confidence >= 0 /\ gaps[r].confidence <= ConfidenceCap

(***************************************************************************)
(* C4, amended.  Every record of gaps has a confidence in [0.0, 1.0]: a    *)
(* heuristic record one in [0.70, 0.95], a remote record the service's     *)
(* score, above 0.7 and at most 1.0.                                       *)
(***************************************************************************)
C4_ConfidenceByPath ==
    \A r \in 1..Len(gaps) :
        /\ \E k \in 1..Len(calls) : calls[k].lo < r /\ r <= calls[k].hi
        /\ BackendOf(r) \in {"remote", "heuristic"}
        /\ (BackendOf(r) = "heuristic") =>
               (gaps[r].confidence >= 700 /\ gaps[r].confidence <= 950)
        /\ (BackendOf(r) = "remote") =>
               (gaps[r].confidence > 700 /\ gaps[r].confidence <= 1000)

\* A returned list with a remote record above 0.95 and a heuristic record.
C4_Witness ==
    /\ pc = "returned"
    /\ \E r \in 1..Len(gaps) : BackendOf(r) = "remote" /\ gaps[r].confidence > 950
    /\ \E r \in 1..Len(gaps) : BackendOf(r) = "heuristic" /\ gaps[r].confidence > 700

(***************************************************************************)
(* C5. Remote acceptance rule: for a remote batch whose response was read  *)
(* to the end, the fragment at position j of the submitted batch yields a  *)
(* record iff the highest-scoring language of result j is 'en' with a      *)
(* score strictly above 0.7; the records come in fragment order, each with *)
(* the fragment as text, that score as confidence and the call's location. *)
(***************************************************************************)
C5_RemoteAcceptance ==
    \A k \in 1..Len(calls) :
        GoodRemote(k) =>
            /\ Len(calls[k].ResultList) = Len(calls[k].TextList)
            /\ Len(Slice(k)) = Cardinality(AcceptedPositions(k))
            /\ \A j \in AcceptedPositions(k) :
                   LET r == Cardinality({x \in AcceptedPositions(k) : x <= j})
                   IN  Slice(k)[r] = [location |-> location,
                                      text |-> calls[k].TextList[j],
                                      confidence |-> TopScore(k, j)]

\* A remote batch read to the end in which the first fragment was English at
\* exactly 0.7, and so yielded nothing, and the later ones were accepted.
C5_Witness ==
    \E k \in 1..Len(calls) :
        /\ GoodRemote(k)
        /\ calls[k].ResultList[1] = ResultEnglishLow
        /\ Len(Slice(k)) > 1
        /\ Len(Slice(k)) = Len(calls[k].TextList) - 1

(***************************************************************************)
(* C6. Configuration failure: when the key file is absent or lacks one of  *)
(* the three required keys, the constructor completes with initialized     *)
(* false, and in every later state of the run initialized is still false,  *)
(* no batch has been sent to the remote service and every batch that       *)
(* reached a backend went straight to the heuristic.                       *)
(***************************************************************************)
C6_ConfigFailureHeuristicOnly ==
    (pc # "new" /\ ConfigurationFails) =>
        /\ ~initialized
        /\ pc # "except"
        /\ \A k \in 1..Len(calls) :
               /\ calls[k].backend \in {"heuristic", "none"}
               /\ (calls[k].TextList # <<>>) => calls[k].backend = "heuristic"

\* A call has returned gaps found by the heuristic on an analyzer built from a
\* key file that exists but lacks a key.
C6_Witness ==
    /\ pc = "returned"
    /\ key_file.exists
    /\ ConfigurationFails
    /\ gaps # <<>>
    /\ Len(calls) = 2

(***************************************************************************)
(* C7. At most one fallback per batch: in every state no batch has two     *)
(* remote attempts or two heuristic passes; a failed remote attempt is     *)
(* followed at once by one heuristic pass over the same whole batch (or    *)
(* the except clause is about to run it); and the batches come in          *)
(* increasing order, so no batch is taken up again.                        *)
(***************************************************************************)
C7_OneAttemptEach ==
    /\ \A k \in 1..Len(calls), m \in 1..Len(calls) :
           (k # m /\ calls[k].batch = calls[m].batch) =>
               calls[k].backend # calls[m].backend
    /\ \A k \in 1..Len(calls) :
           FailedRemote(k) =>
               IF k = Len(calls) THEN pc = "except"
               ELSE /\ calls[k + 1].backend = "heuristic"
                    /\ calls[k + 1].batch = calls[k].batch
                    /\ calls[k + 1].TextList = calls[k].TextList
    /\ (pc = "except") => (calls # <<>> /\ FailedRemote(Len(calls)))
    /\ \A k \in 1..(Len(calls) - 1) :
           \/ calls[k].batch < calls[k + 1].batch
           \/ (FailedRemote(k) /\ calls[k].batch = calls[k + 1].batch)

\* A call has returned after a remote failure on its first batch, answered by
\* one heuristic pass, and a second batch.
C7_Witness ==
    /\ pc = "returned"
    /\ Len(calls) >= 3
    /\ FailedRemote(1)
    /\ calls[2].backend = "heuristic"
    /\ calls[3].batch > calls[1].batch

(***************************************************************************)
(* C8. Batch partitioning.  As claimed: with N the number of fragments     *)
(* that are classified (extracted, longer than one character, not purely   *)
(* numeric), exactly ceil(N/25) batches are classified.  The code cuts the *)
(* extracted sequence into batches first and filters each batch after, so  *)
(* the classified fragments can spread over more batches than that.        *)
(***************************************************************************)
C8_CeilOfClassified ==
    (pc = "returned") =>
        Cardinality(ClassifiedBatches) =
            Ceil(Cardinality(AdmittedIn(1, Len(filtered_elements))), 25)

(***************************************************************************)
(* C8, amended.  analyze_page cuts the M extracted fragments (trimmed,     *)
(* non-empty, not code-like) into ceil(M/25) consecutive batches of 25,    *)
(* the last possibly shorter, taken one at a time in document order; from  *)
(* each batch it then drops the fragments of length <= 1 or purely         *)
(* numeric, order kept, and classifies the batch unless nothing is left.   *)
(* So with N fragments classified, between ceil(N/25) and ceil(M/25)       *)
(* batches are classified.                                                 *)
(***************************************************************************)
C8_BatchPartition ==
    /\ \A k \in 1..Len(calls) :
           LET b == calls[k].batch
               kept == AdmittedIn(b + 1, b + 25)
           IN  /\ b % 25 = 0
               /\ b < Len(filtered_elements)
               /\ \A c \in 0..(b \div 25) : (25 * c) \in BatchOffsets
               /\ (k > 1) => calls[k - 1].batch <= b
               /\ Len(calls[k].TextList) =
                      (IF calls[k].backend = "none" THEN 0 ELSE Cardinality(kept))
               /\ (calls[k].backend = "none") <=> (kept = {})
               /\ \A x \in kept :
                      (calls[k].backend # "none") =>
                          calls[k].TextList[Cardinality({y \in kept : y <= x})] =
                              filtered_elements[x]
    /\ (pc = "returned") =>
           /\ Cardinality(BatchOffsets) = Ceil(Len(filtered_elements), 25)
           /\ Cardinality(ClassifiedBatches) >=
                  Ceil(Cardinality(AdmittedIn(1, Len(filtered_elements))), 25)
           /\ Cardinality(ClassifiedBatches) <= Ceil(Len(filtered_elements), 25)

\* A call has returned on 26 extracted fragments of which 25 were classified,
\* in two batches.
C8_Witness ==
    /\ pc = "returned"
    /\ Len(filtered_elements) = 26
    /\ Cardinality(AdmittedIn(1, Len(filtered_elements))) = 25
    /\ Cardinality(ClassifiedBatches) = 2

(***************************************************************************)
(* C9. Request-size ceiling: every request sent to the remote service      *)
(* holds at least 1 and at most 25 fragments, and a batch the filter       *)
(* leaves empty reaches no backend: its only event is the skip, which adds *)
(* no record.                                                              *)
(***************************************************************************)
C9_RequestSize ==
    \A k \in 1..Len(calls) :
        /\ (calls[k].backend = "remote") =>
               (Len(calls[k].TextList) >= 1 /\ Len(calls[k].TextList) <= 25)
        /\ (AdmittedIn(calls[k].batch + 1, calls[k].batch + 25) = {}) =>
               /\ calls[k].backend = "none"
               /\ calls[k].TextList = <<>>
               /\ calls[k].lo = calls[k].hi
               /\ \A m \in 1..Len(calls) : (calls[m].batch = calls[k].batch) => m = k

\* A remote request of exactly 25 fragments, and in the same call a batch
\* that the filter left empty.
C9_Witness ==
    \E k \in 1..Len(calls), m \in 1..Len(calls) :
        /\ calls[k].backend = "remote"
        /\ Len(calls[k].TextList) = 25
        /\ calls[m].backend = "none"

(***************************************************************************)
(* C10. Output order: the texts of gaps are an order-preserving            *)
(* subsequence of the extracted fragments, each fragment occurrence giving *)
(* at most one record, for any mix of remote successes and failures.       *)
(* Violated with C1: after a response whose reading raises midway, a       *)
(* fragment has a remote record and a heuristic record.                    *)
(***************************************************************************)
C10_OrderedSubsequence ==
    IsSubsequence([r \in 1..Len(gaps) |-> gaps[r].text], filtered_elements)

(***************************************************************************)
(* Whole words of a text, read off the characters                          *)
(***************************************************************************)
\* word stands in text at a..b with no word character on either side.
WholeWordAt(text, word, a) ==
    LET b == a + Len(word) - 1
    IN  /\ b <= Len(text)
        /\ SubSeq(text, a, b) = word
        /\ ~WordAt(text, a - 1)
        /\ ~WordAt(text, b + 1)

HasWholeWord(text, word) == \E a \in 1..Len(text) : WholeWordAt(text, word, a)

\* The lexicon words that stand as whole words in the lower-cased text.
LexiconHits(text) == {w \in Range(english_words) : HasWholeWord(lower(text), w)}

ContainsLexiconWord(text) == LexiconHits(text) # {}

HeuristicEvents == {k \in 1..Len(calls) : calls[k].backend = "heuristic"}

TextOf(node) == strip(node.text)

(***************************************************************************)
(* C11. Heuristic verdict: a fragment classified by the heuristic backend  *)
(* yields a gap record if and only if its lower-cased text contains at     *)
(* least one lexicon word as a whole word; "Please Save your settings"     *)
(* yields one and "Parametres" (with e grave) and "Information" none. The  *)
(* record carries the location given, the fragment as text and the value   *)
(* of _calculate_confidence, and the records stand in the order of the     *)
(* fragments.                                                              *)
(***************************************************************************)
C11_HeuristicVerdict ==
    \A k \in HeuristicEvents :
        LET hits == SelectSeq(calls[k].TextList, ContainsLexiconWord)
        IN  /\ Slice(k) = [n \in 1..Len(hits) |->
                              [location |-> location, text |-> hits[n],
                               confidence |-> _calculate_confidence(hits[n])]]
            /\ \A n \in 1..Len(calls[k].TextList) :
                  LET text == calls[k].TextList[n]
                      made == \E m \in 1..Len(Slice(k)) : Slice(k)[m].text = text
                  IN  /\ text = TextOf(NodeSave) => made
                      /\ text \in {TextOf(NodeParametres), TextOf(NodeInformation)} => ~made

\* A page with an English and a French fragment was classified by the
\* heuristic backend and gave the one record of the English fragment.
C11_Witness ==
    /\ pc = "returned"
    /\ ~initialized
    /\ page_source = <<NodeParametres, NodeSave>>
    /\ HeuristicEvents # {}
    /\ Len(gaps) = 1
    /\ gaps[1].text = TextOf(NodeSave)

\* 0.7 + a + b in binary64, a and b each 0 or 0.1, in thousandths rounded down:
\* 0.7 + 0.1 is 0.7999999999999999 and 0.7 + 0.1 + 0.1 is 0.8999999999999999.
BinarySum(first, second) ==
    IF first /\ second THEN 899
    ELSE IF first \/ second THEN 799
    ELSE 700

HeuristicRecords ==
    {r \in 1..Len(gaps) : \E k \in HeuristicEvents : calls[k].lo < r /\ r <= calls[k].hi}

(***************************************************************************)
(* C12. Confidence Scorer: the confidence of every heuristic record is     *)
(* min(0.95, 0.7 + (0.1 if len(text) > 20) + (0.1 if more than 2 distinct  *)
(* lexicon words stand as whole words in the lower-cased text)), the sums  *)
(* taken in binary64 as the code takes them; it lies in [0.70, 0.95]; and  *)
(* the scorer's lexicon is the classifier's.                               *)
(***************************************************************************)
C12_ConfidenceScorer ==
    /\ Range(confidence_english_words) = Range(english_words)
    /\ \A r \in HeuristicRecords :
          LET text == gaps[r].text
              long == Len(text) > 20
              many == Cardinality(LexiconHits(text)) > 2
          IN  /\ gaps[r].confidence = Min(950, BinarySum(long, many))
              /\ gaps[r].confidence >= 700
              /\ gaps[r].confidence <= 950

\* Both single bonuses happened: a short fragment with three lexicon words
\* and a long one with two.
C12_Witness ==
    /\ pc = "returned"
    /\ ~initialized
    /\ page_source = <<NodeSignOut, NodeLoading>>
    /\ Len(gaps) = 2
    /\ Cardinality(LexiconHits(gaps[1].text)) = 3 /\ Len(gaps[1].text) <= 20
    /\ Cardinality(LexiconHits(gaps[2].text)) = 2 /\ Len(gaps[2].text) > 20
    /\ gaps[1].confidence = 799 /\ gaps[2].confidence = 799

\* The heuristic records of 25-character fragments with three or more
\* different lexicon words.
TwentyFiveWithThree ==
    {r \in HeuristicRecords :
        Len(gaps[r].text) = 25 /\ Cardinality(LexiconHits(gaps[r].text)) >= 3}

(***************************************************************************)
(* C13. A 25-character fragment containing three or more lexicon words     *)
(* gets the heuristic confidence 0.95.                                     *)
(***************************************************************************)
C13_CapReached ==
    \A r \in TwentyFiveWithThree : gaps[r].confidence = 950

\* C13 as the code has it: such a fragment gets 0.7 + 0.1 + 0.1 in binary64,
\* 0.8999999999999999, which the cap of 0.95 leaves alone.
C13_BothBonuses ==
    \A r \in TwentyFiveWithThree :
        /\ gaps[r].confidence = 899
        /\ gaps[r].confidence < ConfidenceCap

\* "Please Save your settings", 25 characters with four lexicon words, was
\* scored by the heuristic backend.
C13_Witness ==
    /\ TwentyFiveWithThree # {}
    /\ \E r \in TwentyFiveWithThree : gaps[r].text = TextOf(NodeSave)

\* The batch events in which a backend was called.
BackendEvents == {k \in 1..Len(calls) : calls[k].backend \in {"remote", "heuristic"}}

(***************************************************************************)
(* C14. Classifier input admission: no fragment that is purely numeric     *)
(* (digits only, as "12345") or of length <= 1 is ever in the texts passed *)
(* to the remote or to the heuristic backend, whatever the markup and      *)
(* whether or not the analyzer is initialized; a batch event without a     *)
(* backend passes no text at all.                                          *)
(***************************************************************************)
C14_InputAdmission ==
    \A k \in 1..Len(calls) :
        /\ \A n \in 1..Len(calls[k].TextList) :
              LET text == calls[k].TextList[n]
              IN  /\ Len(text) > 1
                  /\ \E c \in Range(text) : c \notin DigitChars
                  /\ text \notin {TextOf(NodeNumber), TextOf(NodeLetter)}
        /\ k \notin BackendEvents => calls[k].TextList = <<>>

\* A page with "12345" and an English fragment went to the remote service
\* as the English fragment alone.
C14_Witness ==
    /\ initialized
    /\ page_source = <<NodeNumber, NodeSave>>
    /\ filtered_elements = <<TextOf(NodeNumber), TextOf(NodeSave)>>
    /\ Len(calls) >= 1
    /\ calls[1].backend = "remote"
    /\ calls[1].TextList = <<TextOf(NodeSave)>>

\* Fewer than half of the characters of text are letters.
AlphabeticBelowHalf(text) ==
    LET letters == {k \in 1..Len(text) :
                       text[k] \in Range(LowerLetters) \cup Range(UpperLetters)}
    IN  2 * Cardinality(letters) < Len(text)

(***************************************************************************)
(* C15. Alphabetic-ratio admission: a fragment whose ratio of alphabetic   *)
(* characters to all characters is below 0.5 is never among the texts      *)
(* passed to a backend and never the text of a gap record.                 *)
(***************************************************************************)
C15_AlphabeticRatio ==
    /\ \A k \in 1..Len(calls) : \A n \in 1..Len(calls[k].TextList) :
          ~AlphabeticBelowHalf(calls[k].TextList[n])
    /\ \A r \in 1..Len(gaps) : ~AlphabeticBelowHalf(gaps[r].text)

\* A call of analyze_page is under way or has returned.
InCall == pc \in {"loop", "except", "returned"}

\* The text node lies in no script or style subtree, is not blank and does
\* not look like code.
Survives(node) ==
    /\ "script" \notin Range(node.path)
    /\ "style" \notin Range(node.path)
    /\ \E c \in Range(node.text) : c \notin SpaceChars
    /\ \A k \in 1..Len(code_patterns) : ~re_search(code_patterns[k], TextOf(node))

(***************************************************************************)
(* C16. Extraction: the fragment sequence of a call is, in document order, *)
(* the trimmed texts of exactly those text nodes of the markup that lie    *)
(* outside every script and style subtree, are non-empty after trimming    *)
(* and match none of the code patterns; no text of a script or style       *)
(* subtree and none of "function foo(", "let x =", "<div>text</div>" is    *)
(* ever passed to a backend.                                               *)
(***************************************************************************)
C16_Extraction ==
    /\ InCall =>
          LET kept == SelectSeq(page_source, Survives)
          IN  filtered_elements = [n \in 1..Len(kept) |-> TextOf(kept[n])]
    /\ \A k \in 1..Len(calls) : \A n \in 1..Len(calls[k].TextList) :
          calls[k].TextList[n] \notin
              {TextOf(NodeAlert), TextOf(NodeComment), TextOf(NodeVar),
               TextOf(NodeFunction), TextOf(NodeLet), TextOf(NodeDiv)}

\* A page with a script that holds English wording, not code, and a link:
\* the link alone was extracted and classified.
C16_Witness ==
    /\ pc = "returned"
    /\ page_source = <<NodeAlert, NodeSignOut>>
    /\ ContainsLexiconWord(TextOf(NodeAlert))
    /\ ~_is_code(TextOf(NodeAlert))
    /\ filtered_elements = <<TextOf(NodeSignOut)>>
    /\ Len(calls) = 1
    /\ calls[1].TextList = <<TextOf(NodeSignOut)>>

\* The call analyze_page(ScenarioPage, "Login") of an uninitialized analyzer
\* has returned.
ScenarioReturned ==
    /\ pc = "returned"
    /\ ~initialized
    /\ page_source = ScenarioPage
    /\ location = "Login"

(***************************************************************************)
(* C17. End-to-end scenario: an uninitialized analyzer, given the markup   *)
(* with a script element, the paragraph "Please enter your password" and   *)
(* the paragraph "Bienvenue", and the location "Login", returns exactly    *)
(* one gap record: location "Login", text "Please enter your password",    *)
(* confidence 0.9.                                                         *)
(***************************************************************************)
C17_LoginScenario ==
    ScenarioReturned =>
        gaps = <<[location |-> "Login", text |-> TextOf(NodePassword), confidence |-> 900]>>

\* What the scenario returns: the one record, with 0.8999999999999999.
C17_ScenarioAsComputed ==
    ScenarioReturned =>
        /\ filtered_elements = <<TextOf(NodePassword), TextOf(NodeFrench)>>
        /\ gaps = <<[location |-> "Login", text |-> TextOf(NodePassword), confidence |-> 899]>>

(***************************************************************************)
(* C19. Determinism with the heuristic backend: when an uninitialized      *)
(* analyzer is called again with the markup and location of an earlier     *)
(* call, it returns the gap records of the earlier call, the same records  *)
(* in the same order; the earlier call has left nothing that changes the   *)
(* later one.                                                              *)
(***************************************************************************)
C19_RepeatedCall ==
    /\ (pc = "returned" /\ ~initialized) =>
          \A n \in 1..Len(returned_calls) :
              (/\ returned_calls[n].page_source = page_source
               /\ returned_calls[n].location = location)
                  => returned_calls[n].gaps = gaps
    /\ \A m, n \in 1..Len(returned_calls) :
          (/\ returned_calls[m].page_source = returned_calls[n].page_source
           /\ returned_calls[m].location = returned_calls[n].location)
              => returned_calls[m].gaps = returned_calls[n].gaps

\* The second of two equal calls has returned, with records.
C19_Witness ==
    /\ pc = "returned"
    /\ ~initialized
    /\ Len(returned_calls) = 1
    /\ returned_calls[1].page_source = page_source
    /\ returned_calls[1].location = location
    /\ Len(page_source) > batch_size
    /\ gaps # <<>>
    /\ returned_calls[1].gaps = gaps

(***************************************************************************)
(* Reading the log of the scan loop                                        *)
(***************************************************************************)
\* The stepwise analyzer and the one-step analyze_page agree.
AnalyzePageAgrees ==
    (pc = "returned" /\ ~initialized) =>
        gaps = heuristic_batches(extracted[page_source], location, 0)

IsAnalysis(e) == e.what \in {"main_page", "modal"}

Failed(e) == ~e.ok /\ e.what \in {"navigate", "main_page", "modal"}

\* The lists the analyses of the first n log entries returned, one after
\* the other.
RECURSIVE ReturnedUpTo(_)
ReturnedUpTo(n) ==
    IF n = 0 THEN <<>>
    ELSE ReturnedUpTo(n - 1) \o
         (IF IsAnalysis(scan_log[n]) /\ scan_log[n].ok THEN scan_log[n].returned ELSE <<>>)

\* The records of all_gaps added at log entry n.
Added(n) == SubSeq(all_gaps, scan_log[n].lo + 1, scan_log[n].hi)

(***************************************************************************)
(* C18. The scan continues after a failing location: when navigation or    *)
(* an analysis raises for a URL entry, all_gaps gets no record for the     *)
(* failing location (for a failed navigation none for the entry at all,    *)
(* for a failed analysis none for its location), the records collected     *)
(* before stay as they are and where they are, and the loop goes on with   *)
(* the next entry, so that at the end every entry has been navigated to.   *)
(***************************************************************************)
C18_ScanContinues ==
    /\ all_gaps = ReturnedUpTo(Len(scan_log))
    /\ \A n \in 1..Len(scan_log) :
          Failed(scan_log[n]) =>
              /\ Added(n) = <<>>
              /\ \A m \in 1..Len(scan_log) : m > n => scan_log[m].url > scan_log[n].url
              /\ IF n < Len(scan_log)
                 THEN /\ scan_log[n + 1].what = "navigate"
                      /\ scan_log[n + 1].url = scan_log[n].url + 1
                 ELSE \/ step = "navigate" /\ url_index = scan_log[n].url + 1
                      \/ step = "done" /\ scan_log[n].url = Len(urls)
    /\ step = "done" =>
          \A k \in 1..Len(urls) :
              \E n \in 1..Len(scan_log) : scan_log[n].what = "navigate" /\ scan_log[n].url = k

\* The modal analysis of the first entry raised after its page had given
\* records; the second entry was scanned and gave records too.
C18_Witness ==
    /\ step = "done"
    /\ Len(urls) = 2
    /\ \E n, m \in 1..Len(scan_log) :
          /\ scan_log[n].url = 1 /\ scan_log[n].what = "modal" /\ ~scan_log[n].ok
          /\ scan_log[n].lo > 0
          /\ scan_log[m].url = 2 /\ scan_log[m].what = "main_page" /\ scan_log[m].ok
          /\ Added(m) # <<>>
          /\ SubSeq(all_gaps, 1, scan_log[n].lo) = analyze_page(SourceOf(urls[1].name), urls[1].name)

(***************************************************************************)
(* C20. The modal step ignores the click result: for a URL entry with a    *)
(* ui_element, after click_element has returned, True or False, main       *)
(* analyzes the page source a second time under "<page> > Modal"; an       *)
(* entry without one is not clicked. When the element could not be         *)
(* clicked, the page analyzed again is the still-open main page and its    *)
(* gaps are recorded under the Modal location.                             *)
(***************************************************************************)
C20_ModalIgnoresClick ==
    \A n \in 1..Len(scan_log) :
        LET e == scan_log[n]
            item == urls[e.url]
        IN  /\ (e.what = "main_page" /\ e.ok /\ Truthy(item.ui_element)) =>
                  IF n < Len(scan_log)
                  THEN scan_log[n + 1].what = "click" /\ scan_log[n + 1].url = e.url
                  ELSE step = "click" /\ url_index = e.url
            /\ e.what \in {"click", "modal"} => Truthy(item.ui_element)
            /\ e.what = "click" =>
                  IF n < Len(scan_log)
                  THEN /\ scan_log[n + 1].what = "modal"
                       /\ scan_log[n + 1].url = e.url
                       /\ scan_log[n + 1].page =
                              (IF e.ok THEN ModalSource ELSE scan_log[n - 1].page)
                       /\ scan_log[n + 1].ok =>
                              /\ Added(n + 1) = scan_log[n + 1].returned
                              /\ \A r \in 1..Len(Added(n + 1)) :
                                    Added(n + 1)[r].location = item.name \o " > Modal"
                              /\ ~e.ok =>
                                    [r \in 1..Len(Added(n + 1)) |-> Added(n + 1)[r].text]
                                        = [r \in 1..Len(Added(n - 1)) |-> Added(n - 1)[r].text]
                  ELSE step = "modal" /\ url_index = e.url

\* click_element returned False and the main page of "Login" was analyzed
\* again: its gap stands in all_gaps under "Login > Modal".
C20_Witness ==
    \E n \in 2..Len(scan_log) :
        /\ scan_log[n].what = "modal" /\ scan_log[n].ok
        /\ scan_log[n - 1].what = "click" /\ ~scan_log[n - 1].ok
        /\ urls[scan_log[n].url].name = "Login"
        /\ scan_log[n].page = SourceOf("Login")
        /\ Added(n) = <<[location |-> "Login > Modal", text |-> TextOf(NodeSave),
                         confidence |-> 899]>>
====
